---- MODULE Spec2Model ----
(***************************************************************************)
(* A model of the dictionary generation engine: PatternGenerator           *)
(* (src/dictionary_generator/patterns.py) and DictionaryGenerator          *)
(* (src/dictionary_generator/generator.py), with the lookup tables of      *)
(* src/config.py.                                                          *)
(*                                                                         *)
(* A Python str is a sequence of code points (naturals), so that length,   *)
(* comparison, case mapping, replacement and slicing are computed as       *)
(* Python computes them: "ab" is <<97, 98>>.  Only ASCII text is drawn.    *)
(***************************************************************************)
EXTENDS Integers, Sequences, FiniteSets, TLC

\* ---------------------------------------------------------------------
\* config.py: the static lookup tables
\* ---------------------------------------------------------------------

DEFAULT_START_YEAR == 1990

DEFAULT_END_YEAR == 2024

\* password 123456 password123 admin letmein welcome monkey dragon master sunshine princess qwerty abc123 111111 iloveyou admin123 password1 12345678 123456789 1234567890
COMMON_PASSWORDS ==
    << <<112,97,115,115,119,111,114,100>>,
       <<49,50,51,52,53,54>>,
       <<112,97,115,115,119,111,114,100,49,50,51>>,
       <<97,100,109,105,110>>,
       <<108,101,116,109,101,105,110>>,
       <<119,101,108,99,111,109,101>>,
       <<109,111,110,107,101,121>>,
       <<100,114,97,103,111,110>>,
       <<109,97,115,116,101,114>>,
       <<115,117,110,115,104,105,110,101>>,
       <<112,114,105,110,99,101,115,115>>,
       <<113,119,101,114,116,121>>,
       <<97,98,99,49,50,51>>,
       <<49,49,49,49,49,49>>,
       <<105,108,111,118,101,121,111,117>>,
       <<97,100,109,105,110,49,50,51>>,
       <<112,97,115,115,119,111,114,100,49>>,
       <<49,50,51,52,53,54,55,56>>,
       <<49,50,51,52,53,54,55,56,57>>,
       <<49,50,51,52,53,54,55,56,57,48>> >>

\* qwerty qwertyuiop asdfgh asdfghjkl zxcvbn 1qaz2wsx qazwsx 123qwe 1q2w3e4r qweasd !qaz@wsx 1234 12345 123456 1234567 12345678
KEYBOARD_PATTERNS ==
    << <<113,119,101,114,116,121>>,
       <<113,119,101,114,116,121,117,105,111,112>>,
       <<97,115,100,102,103,104>>,
       <<97,115,100,102,103,104,106,107,108>>,
       <<122,120,99,118,98,110>>,
       <<49,113,97,122,50,119,115,120>>,
       <<113,97,122,119,115,120>>,
       <<49,50,51,113,119,101>>,
       <<49,113,50,119,51,101,52,114>>,
       <<113,119,101,97,115,100>>,
       <<33,113,97,122,64,119,115,120>>,
       <<49,50,51,52>>,
       <<49,50,51,52,53>>,
       <<49,50,51,52,53,54>>,
       <<49,50,51,52,53,54,55>>,
       <<49,50,51,52,53,54,55,56>> >>

\* ! @ # $ % & * ?
SPECIAL_CHARACTERS ==
    << <<33>>,
       <<64>>,
       <<35>>,
       <<36>>,
       <<37>>,
       <<38>>,
       <<42>>,
       <<63>> >>

\* dict: its items in insertion order, each <<letter, substitutes>>
LEET_SPEAK_MAP ==
    << <<97, <<<<97>>, <<64>>, <<52>>>> >>,
       <<101, <<<<101>>, <<51>>>> >>,
       <<105, <<<<105>>, <<49>>, <<33>>>> >>,
       <<111, <<<<111>>, <<48>>>> >>,
       <<115, <<<<115>>, <<36>>, <<53>>>> >>,
       <<116, <<<<116>>, <<55>>>> >>,
       <<108, <<<<108>>, <<49>>>> >>,
       <<103, <<<<103>>, <<57>>>> >>,
       <<98, <<<<98>>, <<56>>>> >> >>

\* ---------------------------------------------------------------------
\* Python str and list primitives
\* ---------------------------------------------------------------------

Range(s) == {s[i] : i \in DOMAIN s}

\* the concatenation of a list of lists, in order
RECURSIVE Flatten(_)
Flatten(ss) ==
    IF ss = <<>> THEN <<>> ELSE Head(ss) \o Flatten(Tail(ss))

\* the decimal digits of n > 0, most significant first
RECURSIVE Digits(_)
Digits(n) ==
    IF n = 0 THEN <<>> ELSE Append(Digits(n \div 10), 48 + (n % 10))

\* str(n)
Str(n) ==
    IF n = 0 THEN <<48>>
    ELSE IF n < 0 THEN <<45>> \o Digits(0 - n)
    ELSE Digits(n)

\* f"{n}": the number with no padding
Pad2_unpadded(n) == Str(n)

\* f"{n:02d}" for n >= 0
Pad2(n) ==
    IF Len(Str(n)) < 2 THEN <<48>> \o Str(n) ELSE Str(n)

\* s[k:] for k >= 0
SliceFrom(s, k) == SubSeq(s, k + 1, Len(s))

\* s[:k] for k >= 0
SliceTo(s, k) == SubSeq(s, 1, IF k < Len(s) THEN k ELSE Len(s))

LowerChar(c) == IF c >= 65 /\ c <= 90 THEN c + 32 ELSE c

UpperChar(c) == IF c >= 97 /\ c <= 122 THEN c - 32 ELSE c

\* str.lower()
Lower(s) == [i \in DOMAIN s |-> LowerChar(s[i])]

\* str.upper()
Upper(s) == [i \in DOMAIN s |-> UpperChar(s[i])]

\* str.capitalize(): first character upper, the rest lower
Capitalize(s) ==
    [i \in DOMAIN s |-> IF i = 1 THEN UpperChar(s[i]) ELSE LowerChar(s[i])]

\* str.replace(c, r) for a one-character c: every occurrence replaced
RECURSIVE Replace(_, _, _)
Replace(s, c, r) ==
    IF s = <<>> THEN <<>>
    ELSE (IF Head(s) = c THEN r ELSE <<Head(s)>>) \o Replace(Tail(s), c, r)

\* c in s, for a one-character c
Contains(s, c) == \E i \in DOMAIN s : s[i] = c

\* the characters str.strip() removes (space, \t, \n, \v, \f, \r)
IsSpace(c) == c = 32 \/ (c >= 9 /\ c <= 13)

RECURSIVE LStrip(_)
LStrip(s) ==
    IF s # <<>> /\ IsSpace(Head(s)) THEN LStrip(Tail(s)) ELSE s

RECURSIVE RStrip(_)
RStrip(s) ==
    IF s # <<>> /\ IsSpace(s[Len(s)]) THEN RStrip(SubSeq(s, 1, Len(s) - 1)) ELSE s

\* str.strip()
Strip(s) == RStrip(LStrip(s))

\* Python's < on str: lexicographic by code point, a proper prefix first
RECURSIVE StrLess(_, _)
StrLess(a, b) ==
    IF b = <<>> THEN FALSE
    ELSE IF a = <<>> THEN TRUE
    ELSE IF Head(a) # Head(b) THEN Head(a) < Head(b)
    ELSE StrLess(Tail(a), Tail(b))

VARIABLES
    wordlist,   \* self.wordlist
    stats,      \* self.stats
    pc,         \* "idle", or the place generate_dictionary has reached
    cfg,        \* user_config of the generate_dictionary call under way
    ret,        \* <<value>> last returned by generate_dictionary, else <<>>
    fs,         \* the files: path -> [kind, lines]
    out,        \* what the last output or reporting call produced
    passed,     \* history: every argument add_word was called with
    log,        \* history: the phases the last generate_dictionary ran
    hist,       \* history: the public calls made, in order
    config,     \* the globals of config.py that can be set at run time
    app         \* the application of main.py: where it is, and whether
                \* the user has accepted the disclaimer

\* ---------------------------------------------------------------------
\* PatternGenerator
\* ---------------------------------------------------------------------

\* range(start_year, end_year + 1): empty when end_year < start_year
generate_year_patterns(start_year, end_year) ==
    LET n == IF end_year + 1 > start_year THEN end_year + 1 - start_year ELSE 0
        year(i) == start_year + ((i - 1) \div 2)
    IN  [i \in 1..(2 * n) |->
            IF i % 2 = 1 THEN Str(year(i)) ELSE SliceFrom(Str(year(i)), 2)]

\* the variants of one map entry with 'o' turned into '0' as well
LeetEntryVariants_stacked(word_lower, entry) ==
    LET char == entry[1]
        replacements == entry[2]
    IN  IF Contains(word_lower, char)
        THEN [j \in 1..(Len(replacements) - 1) |->
                 Replace(Replace(word_lower, char, replacements[j + 1]), 111, <<48>>)]
        ELSE <<>>

\* the variants one map entry adds: none when the letter is absent,
\* else one per substitute after the first
LeetEntryVariants(word_lower, entry) ==
    LET char == entry[1]
        replacements == entry[2]
    IN  IF Contains(word_lower, char)
        THEN [j \in 1..(Len(replacements) - 1) |->
                 Replace(word_lower, char, replacements[j + 1])]
        ELSE <<>>

\* the list started with the word and its lowercase form
generate_leet_speak_patterns_with_lower(word) ==
    <<word, Lower(word)>> \o
    Flatten([k \in DOMAIN config.LEET_SPEAK_MAP |->
                 LeetEntryVariants(Lower(word), config.LEET_SPEAK_MAP[k])])

\* leet_map = config.LEET_SPEAK_MAP, read at the call
generate_leet_speak_patterns(word) ==
    <<word>> \o
    Flatten([k \in DOMAIN config.LEET_SPEAK_MAP |->
                 LeetEntryVariants(Lower(word), config.LEET_SPEAK_MAP[k])])

\* 007 69 420 666 777 888 999 000 101 143 1337
NOTABLE_NUMBERS ==
    << <<48,48,55>>, <<54,57>>, <<52,50,48>>, <<54,54,54>>, <<55,55,55>>,
       <<56,56,56>>, <<57,57,57>>, <<48,48,48>>, <<49,48,49>>, <<49,52,51>>,
       <<49,51,51,55>> >>

\* generate_number_sequences: ''.join(str(i) for i in range(length)) for
\* each length, then str(digit) * length digit by digit, then the list
\* common_numbers
generate_number_sequences(max_length) ==
    [length \in 1..max_length |->
        Flatten([i \in 1..length |-> Str(i - 1)])] \o
    Flatten([d \in 1..10 |->
        [k \in 1..(max_length - 1) |-> Flatten([j \in 1..(k + 1) |-> Str(d - 1)])]]) \o
    NOTABLE_NUMBERS

\* even index upper, odd index lower (Python indexes from 0)
Alternating(word) ==
    [i \in DOMAIN word |->
        IF (i - 1) % 2 = 0 THEN UpperChar(word[i]) ELSE LowerChar(word[i])]

\* the alternating form kept for words shorter than ten characters
generate_case_variations_under_ten(word) ==
    <<Lower(word), Upper(word), Capitalize(word)>> \o
    (IF Len(word) < 10 THEN <<Alternating(word)>> ELSE <<>>)

generate_case_variations(word) ==
    <<Lower(word), Upper(word), Capitalize(word)>> \o
    (IF Len(word) <= 10 THEN <<Alternating(word)>> ELSE <<>>)

generate_special_char_variations(word) ==
    Flatten([k \in DOMAIN SPECIAL_CHARACTERS |->
                 <<word \o SPECIAL_CHARACTERS[k], SPECIAL_CHARACTERS[k] \o word>>])

\* the inner loop run to its end, with no test of count inside it
InnerPass_whole(combinations, word, numbers, max_combinations) ==
    combinations \o [j \in DOMAIN numbers |-> word \o numbers[j]]

\* the inner loop of generate_word_number_combinations over the numbers
\* that are left: it breaks when count has reached max_combinations.
\* count is incremented with every append and so is len(combinations)
RECURSIVE InnerPass(_, _, _, _)
InnerPass(combinations, word, numbers, max_combinations) ==
    IF numbers = <<>> THEN combinations
    ELSE IF Len(combinations) >= max_combinations THEN combinations
    ELSE InnerPass(Append(combinations, word \o Head(numbers)), word,
                   Tail(numbers), max_combinations)

\* the outer loop over the words that are left, with its own break
RECURSIVE OuterPass(_, _, _, _)
OuterPass(combinations, words, numbers, max_combinations) ==
    IF words = <<>> THEN combinations
    ELSE LET after == InnerPass(combinations, Head(words), numbers, max_combinations)
         IN  IF Len(after) >= max_combinations THEN after
             ELSE OuterPass(after, Tail(words), numbers, max_combinations)

generate_word_number_combinations(words, numbers, max_combinations) ==
    OuterPass(<<>>, words, numbers, max_combinations)

\* ---------------------------------------------------------------------
\* DictionaryGenerator: what each method computes
\* ---------------------------------------------------------------------

\* add_word with the union written as a symmetric difference
add_word_toggle(wl, word) ==
    IF word # <<>> /\ Len(word) > 0
    THEN (IF word \in wl THEN wl \ {word} ELSE wl \cup {word})
    ELSE wl

\* add_word with the test len(word) >= 0
add_word_unfiltered(wl, word) ==
    IF Len(word) >= 0 THEN wl \cup {word} ELSE wl

\* add_word: the wordlist after the call
add_word(wl, word) ==
    IF word # <<>> /\ Len(word) > 0 THEN wl \cup {word} ELSE wl

\* add_words with a loop that stops one element early
add_words_short(wl, words) ==
    wl \cup {words[i] : i \in {j \in 1..(Len(words) - 1) : words[j] # <<>>}}

\* add_words: add_word for each element in order.  The loop over
\* words[1..n] is unfolded as the loop over its first half, then over its
\* second half from the wordlist the first half leaves (the comparison
\* makes TLC compute that wordlist before it goes on)
RECURSIVE add_words(_, _)
add_words(wl, words) ==
    IF words = <<>> THEN wl
    ELSE IF Len(words) = 1 THEN add_word(wl, words[1])
    ELSE LET half == Len(words) \div 2
             first == add_words(wl, SubSeq(words, 1, half))
         IN  IF first = wl
             THEN add_words(wl, SubSeq(words, half + 1, Len(words)))
             ELSE add_words(first, SubSeq(words, half + 1, Len(words)))

\* a list of the elements of a set, for the places where the order of
\* list(set) cannot show: the list is folded back into a set, sorted into
\* a total order, or only counted and measured
RECURSIVE ListOf(_)
ListOf(S) ==
    IF S = {} THEN <<>>
    ELSE LET x == CHOOSE y \in S : TRUE IN <<x>> \o ListOf(S \ {x})

\* generate_with_dates: the arguments of its add_word calls, in order
DateWords(base_words, start_year, end_year) ==
    LET years == generate_year_patterns(start_year, end_year)
    IN  Flatten([k \in DOMAIN base_words |->
            [i \in DOMAIN years |-> base_words[k] \o years[i]] \o
            [month \in 1..12 |-> base_words[k] \o Pad2(month)] \o
            [day \in 1..31 |-> base_words[k] \o Pad2(day)]])

\* 1 12 123 1234 12345 123456 0 00 000 01 001 0001 ! !! !!! @ @@
common_numbers ==
    << <<49>>,
       <<49,50>>,
       <<49,50,51>>,
       <<49,50,51,52>>,
       <<49,50,51,52,53>>,
       <<49,50,51,52,53,54>>,
       <<48>>,
       <<48,48>>,
       <<48,48,48>>,
       <<48,49>>,
       <<48,48,49>>,
       <<48,48,48,49>>,
       <<33>>,
       <<33,33>>,
       <<33,33,33>>,
       <<64>>,
       <<64,64>> >>

\* range(min(100, max_number + 1))
SequentialCount(max_number) ==
    LET n == IF 100 < max_number + 1 THEN 100 ELSE max_number + 1
    IN  IF n < 0 THEN 0 ELSE n

\* generate_with_numbers: the arguments of its add_word calls, in order
NumberWords(base_words, max_number) ==
    Flatten([k \in DOMAIN base_words |->
        [j \in DOMAIN common_numbers |-> base_words[k] \o common_numbers[j]] \o
        [i \in 1..SequentialCount(max_number) |-> base_words[k] \o Str(i - 1)]])

\* the default of generate_with_numbers' max_number
DEFAULT_MAX_NUMBER == 999

\* [line.strip() for line in f if line.strip()]
Usernames(lines) ==
    SelectSeq([i \in DOMAIN lines |-> Strip(lines[i])], LAMBDA u : u # <<>>)

\* username.replace('.', '').replace('_', '')
Cleaned(username) == Replace(Replace(username, 46, <<>>), 95, <<>>)

\* the cleaned form added for every username, changed or not
UsernameWords_always_cleaned(lines) ==
    LET usernames == Usernames(lines)
    IN  usernames \o
        Flatten([k \in DOMAIN usernames |->
            << usernames[k] \o <<49,50,51>>,
               usernames[k] \o <<64,49,50,51>>,
               usernames[k] \o <<33>>,
               usernames[k] \o <<50,48,50,52>>,
               Cleaned(usernames[k]), Cleaned(usernames[k]) \o <<49,50,51>> >>])

\* generate_from_username_file: the arguments of its add_word calls
UsernameWords(lines) ==
    LET usernames == Usernames(lines)
    IN  usernames \o
        Flatten([k \in DOMAIN usernames |->
            << usernames[k] \o <<49,50,51>>,
               usernames[k] \o <<64,49,50,51>>,
               usernames[k] \o <<33>>,
               usernames[k] \o <<50,48,50,52>> >> \o
            (IF Cleaned(usernames[k]) # usernames[k]
             THEN <<Cleaned(usernames[k]), Cleaned(usernames[k]) \o <<49,50,51>> >>
             ELSE <<>>)])

\* the lists a mutation method gets from PatternGenerator, one per word
LeetVariantLists(words) ==
    [k \in DOMAIN words |-> generate_leet_speak_patterns(words[k])]

CaseVariantLists(words) ==
    [k \in DOMAIN words |-> generate_case_variations(words[k])]

SpecialVariantLists(words) ==
    [k \in DOMAIN words |-> generate_special_char_variations(words[k])]

\* apply_leet_speak / apply_uppercase_variations: new_words collects the
\* variants in a set, and list(new_words) is what add_words gets
CollectedWords(lists) == ListOf(Range(Flatten(lists)))

\* count += len(variants) for each word
VariantCount(lists) == Len(Flatten(lists))

\* the key with the string left out: (len(x),)
KeyLess_len_only(a, b) == Len(a) < Len(b)

\* the key of save_to_file's sort, (len(x), x): Python's < on the tuples
KeyLess(a, b) ==
    \/ Len(a) < Len(b)
    \/ Len(a) = Len(b) /\ StrLess(a, b)

\* the comparison a sort makes: by the key (len(x), x) for save_to_file's
\* list.sort, by the strings themselves for print_sample's sorted(words)
Less(key, a, b) ==
    IF key = "len_x" THEN KeyLess(a, b) ELSE StrLess(a, b)

\* list.sort and sorted: a stable sort, an element going after the
\* elements that are not greater
RECURSIVE SortInsert(_, _, _)
SortInsert(key, sorted, x) ==
    IF sorted = <<>> THEN <<x>>
    ELSE IF Less(key, x, Head(sorted)) THEN <<x>> \o sorted
    ELSE <<Head(sorted)>> \o SortInsert(key, Tail(sorted), x)

RECURSIVE Sorted(_, _)
Sorted(key, list) ==
    IF list = <<>> THEN <<>>
    ELSE SortInsert(key, Sorted(key, SubSeq(list, 1, Len(list) - 1)),
                    list[Len(list)])

\* the list cut to max_words before it is sorted
WordsToSave_cut_first(listing, max_words) ==
    Sorted("len_x", IF max_words > 0 /\ Len(listing) > max_words
                   THEN SliceTo(listing, max_words)
                   ELSE listing)

\* the lines save_to_file writes, from one listing of the set
WordsToSave(listing, max_words) ==
    LET words_to_save == Sorted("len_x", listing)
    IN  IF max_words > 0 /\ Len(words_to_save) > max_words
        THEN SliceTo(words_to_save, max_words)
        ELSE words_to_save

\* list(self.wordlist): a set lists its elements in an order that depends
\* on hashes and history, so every order is possible
RECURSIVE Listings(_)
Listings(S) ==
    IF S = {} THEN {<<>>}
    ELSE UNION {{<<x>> \o rest : rest \in Listings(S \ {x})} : x \in S}

RECURSIVE SumLen(_)
SumLen(S) ==
    IF S = {} THEN 0
    ELSE LET x == CHOOSE y \in S : TRUE IN Len(x) + SumLen(S \ {x})

\* get_statistics reporting the tally generate_base_words keeps in
\* self.stats in place of the size of the set
get_statistics_tally(wl) ==
    LET words == ListOf(wl)
    IN  IF words = <<>> THEN <<>>
        ELSE [total_words |-> stats.base_words,
              min_length |-> CHOOSE n \in {Len(w) : w \in Range(words)} :
                                 \A w \in Range(words) : n <= Len(w),
              max_length |-> CHOOSE n \in {Len(w) : w \in Range(words)} :
                                 \A w \in Range(words) : n >= Len(w),
              avg_length |-> <<SumLen(Range(words)), stats.base_words>>,
              unique_words |-> Cardinality(Range(words))]

\* get_statistics: {} for an empty wordlist; words = list(self.wordlist);
\* avg_length is the pair <<sum of lengths, len(words)>>, the quotient
\* left undivided
get_statistics(wl) ==
    LET words == ListOf(wl)
    IN  IF words = <<>> THEN <<>>
        ELSE [total_words |-> Len(words),
              min_length |-> CHOOSE n \in {Len(w) : w \in Range(words)} :
                                 \A w \in Range(words) : n <= Len(w),
              max_length |-> CHOOSE n \in {Len(w) : w \in Range(words)} :
                                 \A w \in Range(words) : n >= Len(w),
              avg_length |-> <<SumLen(Range(words)), Len(words)>>,
              unique_words |-> Cardinality(Range(words))]

\* ---------------------------------------------------------------------
\* The inputs drawn
\* ---------------------------------------------------------------------

\* the most public calls made on one instance
MaxCalls == 3

W_b == <<98>>

W_ab == <<97,98>>

W_Ab == <<65,98>>

W_abc == <<97,98,99>>

\* the arguments of add_word
Words == {<<>>, W_b, W_ab, W_Ab}

\* the arguments of add_words and generate_base_words
WordLists == {<<W_ab, <<>>, W_ab>>, <<W_abc, W_Ab>>}

\* the files of the run: a username file (" j.doe ", "", "a_b", "ab",
\* "  "), another ("_", "A.b_c" with its line end, a tab and "x y"), one
\* that exists and cannot be read, a path with no file, an
\* output path, and an output path in a directory that does not exist
InitialFiles ==
    [path \in {"users.txt", "names.txt", "locked.txt", "missing.txt", "out.txt",
               "nodir/out.txt", "quick_wordlist.txt"} |->
        IF path = "users.txt"
        THEN [kind |-> "file",
              lines |-> << <<32,106,46,100,111,101,32>>, <<>>, <<97,95,98>>,
                           <<97,98>>, <<32,32>> >>]
        ELSE IF path = "names.txt"
        THEN [kind |-> "file", lines |-> << <<95>>, <<65,46,98,95,99,10>>, <<9,120,32,121>> >>]
        ELSE IF path = "locked.txt" THEN [kind |-> "unreadable", lines |-> <<>>]
        ELSE [kind |-> "missing", lines |-> <<>>]]

\* open(path, 'w') fails for a path in a directory that does not exist
Writable(path) == path # "nodir/out.txt"

OutputPaths == {"out.txt", "nodir/out.txt"}

MaxWordsChoices == {0, 1, 2, 5}

SampleCounts == {1, 20}

W_admin == <<97,100,109,105,110>>

W_password == <<112,97,115,115,119,111,114,100>>

W_Password == <<80,97,115,115,119,111,114,100>>

W_LEET == <<76,69,69,84>>

\* the years generate_year_patterns is called with: of one to five
\* digits, and the ones of the documented example
Years == {9, 10, 99, 100, 999, 1000, 2023, 2024, 9999, 10000}

\* ranges of at most three years, and every inverted range
YearPairs == {p \in Years \X Years : p[2] - p[1] <= 2}

\* the arguments of generate_word_number_combinations
ComboWords == {<<>>, <<<<97>>>>, <<<<97>>, <<98>>>>}

ComboNumbers == {<<>>, <<<<49>>>>, <<<<49>>, <<50>>, <<51>>>>}

ComboLimits == {0, 1, 2, 3, 4, 5, 6, 7, 100}

\* the arguments of generate_leet_speak_patterns
LeetWords == {<<>>, W_b, W_ab, W_Ab, W_abc, W_password, W_Password, W_LEET, <<120,121,122>>}

\* the words generate_case_variations is called with: empty, short, of
\* ten characters ("QwertyUiop"), of eleven ("administRat") and of
\* twelve with digits ("Pass2024word")
CaseWords ==
    {<<>>, W_b, W_Ab, W_Password,
     <<81,119,101,114,116,121,85,105,111,112>>,
     <<97,100,109,105,110,105,115,116,82,97,116>>,
     <<80,97,115,115,50,48,50,52,119,111,114,100>>}

\* the arguments of generate_number_sequences: none and one sequence, the
\* documented example, the default, and the lengths around ten digits
MaxLengths == {0, 1, 4, 6, 10, 11, 12}

\* the arguments of the direct calls of generate_with_numbers,
\* generate_with_dates and generate_from_username_file
SeedLists == {<<W_ab, W_b>>}

MaxNumbers == {-1, 0, 99, 100, 999}

UsernamePaths == {"users.txt", "names.txt", "locked.txt", "missing.txt"}

\* dict.get(key, default)
Get(d, key, default) == IF key \in DOMAIN d THEN d[key] ELSE default

\* the truth value of dict.get(key) for a toggle: a missing key is None
Flag(d, key) == key \in DOMAIN d /\ d[key] = TRUE

AllOff ==
    [leetspeak |-> FALSE, uppercase |-> FALSE, numbers |-> FALSE, special |-> FALSE]

\* the configurations generate_dictionary is called with after other calls
Configs ==
    { [base_words |-> <<>>, use_common |-> TRUE, use_keyboard |-> TRUE,
       mutations |-> [AllOff EXCEPT !.special = TRUE]],
      [use_common |-> TRUE, username_file |-> "users.txt"],
      [base_words |-> <<W_ab>>, username_file |-> "", use_dates |-> FALSE,
       use_common |-> FALSE, use_keyboard |-> FALSE, mutations |-> AllOff],
      [base_words |-> <<<<>>, W_Ab>>, username_file |-> "users.txt",
       use_dates |-> TRUE, start_year |-> 99, end_year |-> 100,
       use_common |-> FALSE, use_keyboard |-> TRUE,
       mutations |-> [AllOff EXCEPT !.leetspeak = TRUE, !.uppercase = TRUE]],
      [base_words |-> <<W_b>>, username_file |-> "locked.txt",
       use_dates |-> TRUE, use_common |-> TRUE,
       mutations |-> [special |-> TRUE]] }

\* the dicts with the key missing or bound to one of the values
Optional(key, values) == {<<>>} \cup {key :> v : v \in values}

Required(key, values) == {key :> v : v \in values}

\* the 'mutations' entries: every combination of the three mutation
\* toggles, with 'numbers' missing, False or True
MutationDicts ==
    {l @@ u @@ s @@ n :
        l \in Required("leetspeak", BOOLEAN),
        u \in Required("uppercase", BOOLEAN),
        s \in Required("special", BOOLEAN),
        n \in Optional("numbers", BOOLEAN)}

\* the year ranges drawn: a usual one and an inverted one
YearRanges ==
    {[start_year |-> 2023, end_year |-> 2024],
     [start_year |-> 2024, end_year |-> 2023]}

\* the date entries of a configuration: 'use_dates' missing, False, or
\* True with one of the year ranges
DateEntries ==
    Optional("use_dates", {FALSE}) \cup
    {("use_dates" :> TRUE) @@ y : y \in YearRanges}

\* the configurations of a run on a fresh instance: every combination of
\* the toggles, with seed words, a username file or none, and a year range
AllConfigs ==
    {b @@ f @@ d @@ c @@ k @@ m :
        b \in Optional("base_words", {<<>>, <<W_ab>>, <<<<>>, W_Ab>>, <<W_admin>>}),
        f \in Optional("username_file", {"users.txt", "locked.txt", "missing.txt"}),
        d \in DateEntries,
        c \in Optional("use_common", BOOLEAN),
        k \in Optional("use_keyboard", BOOLEAN),
        m \in Optional("mutations", MutationDicts)}

\* ---------------------------------------------------------------------
\* The state of one DictionaryGenerator and of the files it touches
\* ---------------------------------------------------------------------

vars == <<wordlist, stats, pc, cfg, ret, fs, out, passed, log, hist, config, app>>

Init ==
    /\ wordlist = {}
    /\ stats = [base_words |-> 0, date_patterns |-> 0, mutations |-> 0,
                total_generated |-> 0]
    /\ pc = "idle"
    /\ cfg = <<>>
    /\ ret = <<>>
    /\ fs = InitialFiles
    /\ out = [op |-> "none"]
    /\ passed = {}
    /\ log = <<>>
    /\ hist = <<>>
    /\ config = [LEET_SPEAK_MAP |-> LEET_SPEAK_MAP,
                 REQUIRE_DISCLAIMER_ACCEPTANCE |-> TRUE]
    /\ app = [pc |-> "start", accepted |-> FALSE, current_wordlist |-> ""]

\* the methods of DictionaryGenerator and PatternGenerator assign nothing
\* in config and know nothing of the application
Env == UNCHANGED <<config, app>>

\* a public call on the idle instance, recorded
Call(op, arg) ==
    /\ pc = "idle"
    /\ Len(hist) < MaxCalls
    /\ hist' = Append(hist, [op |-> op, arg |-> arg])

\* the words put in a new set that takes the place of self.wordlist
Insert_replacing(words) ==
    /\ wordlist' = add_words({}, words)
    /\ passed' = passed \cup Range(words)

\* add_words(words) on self.wordlist
Insert(words) ==
    /\ wordlist' = add_words(wordlist, words)
    /\ passed' = passed \cup Range(words)

\* ---------------------------------------------------------------------
\* DictionaryGenerator: the effect of each method on wordlist and stats
\* ---------------------------------------------------------------------

generate_base_words(base_words) ==
    /\ Insert(base_words)
    /\ stats' = [stats EXCEPT !.base_words = Len(base_words)]

\* how generate_from_username_file ends with the error of open or read
\* left to propagate
ReadOutcome_uncaught(filepath) ==
    IF fs[filepath].kind = "unreadable" THEN "raised" ELSE "returned"

\* how generate_from_username_file ends: by return for a missing path, at
\* the end of the try block, and from the except clause, which catches
\* every Exception of open and read
ReadOutcome(filepath) == "returned"

\* a missing path returns at once; an error of open or read is caught
\* before anything is added
generate_from_username_file(filepath) ==
    /\ IF fs[filepath].kind = "file"
       THEN Insert(UsernameWords(fs[filepath].lines))
       ELSE UNCHANGED <<wordlist, passed>>
    /\ UNCHANGED stats

\* generate_with_dates recording how many strings the set gained
generate_with_dates_net(base_words, start_year, end_year) ==
    LET words == DateWords(base_words, start_year, end_year)
    IN  /\ Insert(words)
        /\ stats' = [stats EXCEPT !.date_patterns =
                        Cardinality(add_words(wordlist, words) \ wordlist)]

generate_with_dates(base_words, start_year, end_year) ==
    LET words == DateWords(base_words, start_year, end_year)
    IN  /\ Insert(words)
        /\ stats' = [stats EXCEPT !.date_patterns = Len(words)]

generate_with_numbers(base_words, max_number) ==
    /\ Insert(NumberWords(base_words, max_number))
    /\ UNCHANGED stats

generate_common_passwords ==
    /\ Insert(COMMON_PASSWORDS)
    /\ UNCHANGED stats

generate_keyboard_patterns ==
    /\ Insert(KEYBOARD_PATTERNS)
    /\ UNCHANGED stats

apply_leet_speak(base_words) ==
    LET lists == LeetVariantLists(base_words)
    IN  /\ Insert(CollectedWords(lists))
        /\ stats' = [stats EXCEPT !.mutations = @ + VariantCount(lists)]

apply_uppercase_variations(base_words) ==
    LET lists == CaseVariantLists(base_words)
    IN  /\ Insert(CollectedWords(lists))
        /\ stats' = [stats EXCEPT !.mutations = @ + VariantCount(lists)]

apply_special_characters(base_words) ==
    LET lists == SpecialVariantLists(base_words)
    IN  /\ Insert(Flatten(lists))
        /\ stats' = [stats EXCEPT !.mutations = @ + VariantCount(lists)]

\* ---------------------------------------------------------------------
\* generate_dictionary, one step per phase
\* ---------------------------------------------------------------------

\* the statements of the number phase placed after the leet-speak phase
PHASES_numbers_late ==
    << "base_words", "username_file", "dates", "common", "keyboard",
       "leetspeak", "numbers", "uppercase", "special" >>

\* the phases in the order of generate_dictionary's statements
PHASES ==
    << "base_words", "username_file", "dates", "common", "keyboard",
       "numbers", "leetspeak", "uppercase", "special" >>

\* the place after phase p: the next phase, or the closing statements
NextPhase(p) ==
    LET i == CHOOSE j \in DOMAIN PHASES : PHASES[j] = p
    IN  IF i < Len(PHASES) THEN PHASES[i + 1] ELSE "finish"

\* the test written as base_words is None
NoBaseWords_missing_only(user_config) == "base_words" \notin DOMAIN user_config

\* not base_words, for user_config.get('base_words', [])
NoBaseWords(user_config) == Get(user_config, "base_words", <<>>) = <<>>

\* k elements of a set, or all of them when it has fewer
RECURSIVE Take(_, _)
Take(S, k) ==
    IF k = 0 \/ S = {} THEN <<>>
    ELSE LET x == CHOOSE y \in S : TRUE IN <<x>> \o Take(S \ {x}, k - 1)

\* the mutation phases given current_words, the snapshot
\* list(self.wordlist)[:len(base_words) * 10]
MutationWords_snapshot(base_words, wl) == Take(wl, Len(base_words) * 10)

\* the words the three mutation phases are given: base_words
\* (current_words, the snapshot of the wordlist, is computed and not used)
MutationWords(base_words, wl) == base_words

\* a phase that is skipped
SkipPhase == UNCHANGED <<wordlist, passed, stats, log>>

Ran(p) == log' = Append(log, p)

GenerateDictionary(user_config) ==
    /\ Call("generate_dictionary", user_config)
    /\ log' = <<>>
    /\ IF NoBaseWords(user_config)
       THEN /\ ret' = <<0>>
            /\ UNCHANGED <<pc, cfg>>
       ELSE /\ pc' = PHASES[1]
            /\ cfg' = user_config
            /\ ret' = <<>>
    /\ UNCHANGED <<wordlist, stats, fs, out, passed>>
    /\ Env

BaseWordsStep ==
    /\ pc = "base_words"
    /\ generate_base_words(cfg.base_words)
    /\ Ran("base_words")
    /\ pc' = NextPhase("base_words")
    /\ UNCHANGED <<cfg, ret, fs, out, hist>>
    /\ Env

\* username_file and os.path.exists(username_file)
UsernameFileStep ==
    /\ pc = "username_file"
    /\ IF /\ Get(cfg, "username_file", "") # ""
          /\ fs[cfg.username_file].kind # "missing"
       THEN /\ generate_from_username_file(cfg.username_file)
            /\ Ran("username_file")
            \* an exception leaves generate_dictionary, which catches none
            /\ pc' = IF ReadOutcome(cfg.username_file) = "raised"
                     THEN "idle"
                     ELSE NextPhase("username_file")
       ELSE /\ SkipPhase
            /\ pc' = NextPhase("username_file")
    /\ UNCHANGED <<cfg, ret, fs, out, hist>>
    /\ Env

DatesStep ==
    /\ pc = "dates"
    /\ IF Flag(cfg, "use_dates")
       THEN /\ generate_with_dates(cfg.base_words,
                                   Get(cfg, "start_year", DEFAULT_START_YEAR),
                                   Get(cfg, "end_year", DEFAULT_END_YEAR))
            /\ Ran("dates")
       ELSE SkipPhase
    /\ pc' = NextPhase("dates")
    /\ UNCHANGED <<cfg, ret, fs, out, hist>>
    /\ Env

\* the common passwords added when either of use_common and use_keyboard
\* is set
CommonStep_either ==
    /\ pc = "common"
    /\ IF Flag(cfg, "use_common") \/ Flag(cfg, "use_keyboard")
       THEN generate_common_passwords /\ Ran("common")
       ELSE SkipPhase
    /\ pc' = NextPhase("common")
    /\ UNCHANGED <<cfg, ret, fs, out, hist>>
    /\ Env

CommonStep ==
    /\ pc = "common"
    /\ IF Flag(cfg, "use_common")
       THEN generate_common_passwords /\ Ran("common")
       ELSE SkipPhase
    /\ pc' = NextPhase("common")
    /\ UNCHANGED <<cfg, ret, fs, out, hist>>
    /\ Env

KeyboardStep ==
    /\ pc = "keyboard"
    /\ IF Flag(cfg, "use_keyboard")
       THEN generate_keyboard_patterns /\ Ran("keyboard")
       ELSE SkipPhase
    /\ pc' = NextPhase("keyboard")
    /\ UNCHANGED <<cfg, ret, fs, out, hist>>
    /\ Env

\* mutations.get('numbers', True)
\* mutations.get('numbers', False): the number phase off unless asked for
NumbersStep_default_off ==
    /\ pc = "numbers"
    /\ IF Get(Get(cfg, "mutations", <<>>), "numbers", FALSE) = TRUE
       THEN generate_with_numbers(cfg.base_words, DEFAULT_MAX_NUMBER) /\ Ran("numbers")
       ELSE SkipPhase
    /\ pc' = NextPhase("numbers")
    /\ UNCHANGED <<cfg, ret, fs, out, hist>>
    /\ Env

NumbersStep ==
    /\ pc = "numbers"
    /\ IF Get(Get(cfg, "mutations", <<>>), "numbers", TRUE) = TRUE
       THEN generate_with_numbers(cfg.base_words, DEFAULT_MAX_NUMBER) /\ Ran("numbers")
       ELSE SkipPhase
    /\ pc' = NextPhase("numbers")
    /\ UNCHANGED <<cfg, ret, fs, out, hist>>
    /\ Env

LeetSpeakStep ==
    /\ pc = "leetspeak"
    /\ IF Flag(Get(cfg, "mutations", <<>>), "leetspeak")
       THEN apply_leet_speak(MutationWords(cfg.base_words, wordlist)) /\ Ran("leetspeak")
       ELSE SkipPhase
    /\ pc' = NextPhase("leetspeak")
    /\ UNCHANGED <<cfg, ret, fs, out, hist>>
    /\ Env

UppercaseStep ==
    /\ pc = "uppercase"
    /\ IF Flag(Get(cfg, "mutations", <<>>), "uppercase")
       THEN apply_uppercase_variations(MutationWords(cfg.base_words, wordlist))
            /\ Ran("uppercase")
       ELSE SkipPhase
    /\ pc' = NextPhase("uppercase")
    /\ UNCHANGED <<cfg, ret, fs, out, hist>>
    /\ Env

SpecialStep ==
    /\ pc = "special"
    /\ IF Flag(Get(cfg, "mutations", <<>>), "special")
       THEN apply_special_characters(MutationWords(cfg.base_words, wordlist))
            /\ Ran("special")
       ELSE SkipPhase
    /\ pc' = NextPhase("special")
    /\ UNCHANGED <<cfg, ret, fs, out, hist>>
    /\ Env

\* the closing statements returning the counter before it is updated
FinishStep_stale ==
    /\ pc = "finish"
    /\ stats' = [stats EXCEPT !.total_generated = Cardinality(wordlist)]
    /\ ret' = <<stats.total_generated>>
    /\ pc' = "idle"
    /\ UNCHANGED <<wordlist, cfg, fs, out, passed, log, hist>>
    /\ Env

\* stats['total_generated'] = len(self.wordlist); return len(self.wordlist)
FinishStep ==
    /\ pc = "finish"
    /\ stats' = [stats EXCEPT !.total_generated = Cardinality(wordlist)]
    /\ ret' = <<Cardinality(wordlist)>>
    /\ pc' = "idle"
    /\ UNCHANGED <<wordlist, cfg, fs, out, passed, log, hist>>
    /\ Env

Phase ==
    \/ BaseWordsStep
    \/ UsernameFileStep
    \/ DatesStep
    \/ CommonStep
    \/ KeyboardStep
    \/ NumbersStep
    \/ LeetSpeakStep
    \/ UppercaseStep
    \/ SpecialStep
    \/ FinishStep

\* ---------------------------------------------------------------------
\* The public calls on an idle instance
\* ---------------------------------------------------------------------

AddWord(word) ==
    /\ Call("add_word", word)
    /\ wordlist' = add_word(wordlist, word)
    /\ passed' = passed \cup {word}
    /\ UNCHANGED <<stats, pc, cfg, ret, fs, out, log>>
    /\ Env

AddWords(words) ==
    /\ Call("add_words", words)
    /\ Insert(words)
    /\ UNCHANGED <<stats, pc, cfg, ret, fs, out, log>>
    /\ Env

GenerateBaseWords(base_words) ==
    /\ Call("generate_base_words", base_words)
    /\ generate_base_words(base_words)
    /\ UNCHANGED <<pc, cfg, ret, fs, out, log>>
    /\ Env

\* save_to_file with the lines written assigned back to self.wordlist
SaveToFile_truncating(filepath, max_words) ==
    /\ Call("save_to_file", [filepath |-> filepath, max_words |-> max_words])
    /\ \E listing \in Listings(wordlist) :
          LET words_to_save == WordsToSave(listing, max_words)
          IN  /\ wordlist' = Range(words_to_save)
              /\ IF Writable(filepath)
                 THEN /\ fs' = [fs EXCEPT ![filepath] =
                                   [kind |-> "file", lines |-> words_to_save]]
                      /\ out' = [op |-> "save_to_file", saved |-> TRUE,
                                 lines |-> words_to_save]
                 ELSE /\ out' = [op |-> "save_to_file", saved |-> FALSE,
                                 lines |-> words_to_save]
                      /\ UNCHANGED fs
    /\ UNCHANGED <<stats, pc, cfg, ret, passed, log>>
    /\ Env

\* save_to_file: the list is sorted and cut, then open(filepath, 'w')
\* fails and leaves the file alone, or a write fails after some lines, or
\* every line is written; an error is caught and reported
SaveToFile(filepath, max_words) ==
    /\ Call("save_to_file", [filepath |-> filepath, max_words |-> max_words])
    /\ \E listing \in Listings(wordlist) :
          LET words_to_save == WordsToSave(listing, max_words)
          IN  \/ /\ ~Writable(filepath)
                 /\ out' = [op |-> "save_to_file", saved |-> FALSE,
                            lines |-> words_to_save]
                 /\ UNCHANGED fs
              \/ /\ Writable(filepath)
                 /\ \E k \in 0..(Len(words_to_save) - 1) :
                       fs' = [fs EXCEPT ![filepath] =
                                 [kind |-> "file", lines |-> SliceTo(words_to_save, k)]]
                 /\ out' = [op |-> "save_to_file", saved |-> FALSE,
                            lines |-> words_to_save]
              \/ /\ Writable(filepath)
                 /\ fs' = [fs EXCEPT ![filepath] =
                              [kind |-> "file", lines |-> words_to_save]]
                 /\ out' = [op |-> "save_to_file", saved |-> TRUE,
                            lines |-> words_to_save]
    /\ UNCHANGED <<wordlist, stats, pc, cfg, ret, passed, log>>
    /\ Env

GetStatistics ==
    /\ Call("get_statistics", <<>>)
    /\ out' = [op |-> "get_statistics", result |-> get_statistics(wordlist)]
    /\ UNCHANGED <<wordlist, stats, pc, cfg, ret, fs, passed, log>>
    /\ Env

\* print_statistics: what it prints is the dict get_statistics returns,
\* or "No statistics available" for the empty one
PrintStatistics ==
    /\ Call("print_statistics", <<>>)
    /\ out' = [op |-> "print_statistics", result |-> get_statistics(wordlist)]
    /\ UNCHANGED <<wordlist, stats, pc, cfg, ret, fs, passed, log>>
    /\ Env

\* print_sample: sorted(words)[:count], and how many more there are
PrintSample(count) ==
    /\ Call("print_sample", count)
    /\ out' = [op |-> "print_sample",
               shown |-> SliceTo(Sorted("x", ListOf(wordlist)), count),
               more |-> IF Cardinality(wordlist) > count
                        THEN Cardinality(wordlist) - count ELSE 0]
    /\ UNCHANGED <<wordlist, stats, pc, cfg, ret, fs, passed, log>>
    /\ Env

Next ==
    \/ \E word \in Words : AddWord(word)
    \/ \E words \in WordLists : AddWords(words)
    \/ \E user_config \in Configs : GenerateDictionary(user_config)
    \/ Phase

Spec == Init /\ [][Next]_vars

\* the methods of PatternGenerator are functions of their arguments (and
\* of the tables of config): a call leaves the DictionaryGenerator alone,
\* and what it hands back to the caller is recorded in out
YearPatterns(start_year, end_year) ==
    /\ pc = "idle"
    /\ out' = [op |-> "generate_year_patterns",
               start_year |-> start_year, end_year |-> end_year,
               outcome |-> "returned",
               result |-> generate_year_patterns(start_year, end_year)]
    /\ UNCHANGED <<wordlist, stats, pc, cfg, ret, fs, passed, log, hist>>
    /\ Env

WordNumberCombinations(words, numbers, max_combinations) ==
    /\ pc = "idle"
    /\ out' = [op |-> "generate_word_number_combinations",
               words |-> words, numbers |-> numbers,
               max_combinations |-> max_combinations,
               outcome |-> "returned",
               result |-> generate_word_number_combinations(words, numbers,
                                                            max_combinations)]
    /\ UNCHANGED <<wordlist, stats, pc, cfg, ret, fs, passed, log, hist>>
    /\ Env

LeetSpeakPatterns(word) ==
    /\ pc = "idle"
    /\ out' = [op |-> "generate_leet_speak_patterns", word |-> word,
               outcome |-> "returned",
               result |-> generate_leet_speak_patterns(word)]
    /\ UNCHANGED <<wordlist, stats, pc, cfg, ret, fs, passed, log, hist>>
    /\ Env

CaseVariations(word) ==
    /\ pc = "idle"
    /\ out' = [op |-> "generate_case_variations", word |-> word,
               outcome |-> "returned",
               result |-> generate_case_variations(word)]
    /\ UNCHANGED <<wordlist, stats, pc, cfg, ret, fs, passed, log, hist>>
    /\ Env

NumberSequences(max_length) ==
    /\ pc = "idle"
    /\ out' = [op |-> "generate_number_sequences", max_length |-> max_length,
               outcome |-> "returned",
               result |-> generate_number_sequences(max_length)]
    /\ UNCHANGED <<wordlist, stats, pc, cfg, ret, fs, passed, log, hist>>
    /\ Env

PatternNext ==
    \/ \E p \in YearPairs : YearPatterns(p[1], p[2])
    \/ \E words \in ComboWords, numbers \in ComboNumbers,
          max_combinations \in ComboLimits :
           WordNumberCombinations(words, numbers, max_combinations)
    \/ \E word \in LeetWords : LeetSpeakPatterns(word)
    \/ \E word \in CaseWords : CaseVariations(word)
    \/ \E max_length \in MaxLengths : NumberSequences(max_length)

\* calls of the PatternGenerator methods on the arguments drawn
PatternSpec == Init /\ [][PatternNext]_vars

GenerateWithDates(base_words, start_year, end_year) ==
    /\ Call("generate_with_dates",
            [base_words |-> base_words, start_year |-> start_year,
             end_year |-> end_year])
    /\ generate_with_dates(base_words, start_year, end_year)
    /\ UNCHANGED <<pc, cfg, ret, fs, out, log>>
    /\ Env

GenerateWithNumbers(base_words, max_number) ==
    /\ Call("generate_with_numbers",
            [base_words |-> base_words, max_number |-> max_number])
    /\ generate_with_numbers(base_words, max_number)
    /\ UNCHANGED <<pc, cfg, ret, fs, out, log>>
    /\ Env

\* generate_from_username_file called directly; out keeps the arguments of
\* the add_word calls it made, in order
GenerateFromUsernameFile(filepath) ==
    /\ Call("generate_from_username_file", filepath)
    /\ generate_from_username_file(filepath)
    /\ out' = [op |-> "generate_from_username_file",
               outcome |-> ReadOutcome(filepath),
               attempts |-> IF fs[filepath].kind = "file"
                            THEN UsernameWords(fs[filepath].lines)
                            ELSE <<>>]
    /\ UNCHANGED <<pc, cfg, ret, fs, log>>
    /\ Env

MethodNext ==
    \/ \E word \in Words : AddWord(word)
    \/ \E base_words \in SeedLists, p \in YearRanges :
           GenerateWithDates(base_words, p.start_year, p.end_year)
    \/ \E base_words \in SeedLists, max_number \in MaxNumbers :
           GenerateWithNumbers(base_words, max_number)
    \/ \E filepath \in UsernamePaths : GenerateFromUsernameFile(filepath)

\* the generation methods called one by one on the instance
MethodSpec == Init /\ [][MethodNext]_vars

SaveNext ==
    \/ \E word \in Words : AddWord(word)
    \/ \E words \in WordLists : AddWords(words)
    \/ \E base_words \in WordLists : GenerateBaseWords(base_words)
    \/ \E filepath \in OutputPaths, max_words \in MaxWordsChoices :
           SaveToFile(filepath, max_words)
    \/ GetStatistics
    \/ PrintStatistics
    \/ \E count \in SampleCounts : PrintSample(count)

\* the output and reporting methods on the sets that add_word, add_words
\* and generate_base_words build, every listing of the set drawn
SaveSpec == Init /\ [][SaveNext]_vars

\* ---------------------------------------------------------------------
\* config.py: the settings changed at run time
\* ---------------------------------------------------------------------

\* the settings of config.py that the code modelled reads
ConfigKeys == {"LEET_SPEAK_MAP", "REQUIRE_DISCLAIMER_ACCEPTANCE"}

\* values given to LEET_SPEAK_MAP: the table of config.py, {},
\* {'a': ['4', 'a']}, {'a': ['a', '@'], 'b': ['8']} and {'o': ['o', '0']}
LeetMaps ==
    {LEET_SPEAK_MAP,
     <<>>,
     << <<97, << <<52>>, <<97>> >> >> >>,
     << <<97, << <<97>>, <<64>> >> >>, <<98, << <<56>> >> >> >>,
     << <<111, << <<111>>, <<48>> >> >> >>}

\* the values a setting is given
ConfigValues(key) == IF key = "LEET_SPEAK_MAP" THEN LeetMaps ELSE BOOLEAN

\* the configuration files: one with a leet map and a key config.py does
\* not have, one that switches the disclaimer off, one that is not JSON,
\* and a path with no file
ConfigFiles ==
    [path \in {"custom.json", "quiet.json", "broken.json", "none.json"} |->
        IF path = "custom.json"
        THEN [kind |-> "json",
              data |-> ("LEET_SPEAK_MAP" :> << <<97, << <<52>>, <<97>> >> >> >>) @@
                       ("NOT_A_SETTING" :> 1)]
        ELSE IF path = "quiet.json"
        THEN [kind |-> "json",
              data |-> ("REQUIRE_DISCLAIMER_ACCEPTANCE" :> FALSE)]
        ELSE IF path = "broken.json" THEN [kind |-> "invalid", data |-> <<>>]
        ELSE [kind |-> "missing", data |-> <<>>]]

\* globals()[key] = value
set_config_value(key, value) ==
    config' = [k \in DOMAIN config |-> IF k = key THEN value ELSE config[k]]

\* every key of the file that is a global of config.py is assigned; an
\* error of open or json.load is caught before any assignment
load_custom_config(config_file) ==
    LET file == ConfigFiles[config_file]
    IN  IF file.kind = "json"
        THEN config' = [k \in DOMAIN config |->
                           IF k \in DOMAIN file.data THEN file.data[k]
                           ELSE config[k]]
        ELSE UNCHANGED config

SetConfigValue(key, value) ==
    /\ pc = "idle"
    /\ app.pc = "start"
    /\ set_config_value(key, value)
    /\ out' = [op |-> "set_config_value", key |-> key, value |-> value]
    /\ UNCHANGED <<wordlist, stats, pc, cfg, ret, fs, passed, log, hist, app>>

LoadCustomConfig(config_file) ==
    /\ pc = "idle"
    /\ app.pc = "start"
    /\ load_custom_config(config_file)
    /\ out' = [op |-> "load_custom_config", config_file |-> config_file]
    /\ UNCHANGED <<wordlist, stats, pc, cfg, ret, fs, passed, log, hist, app>>

ConfigNext ==
    \/ \E key \in ConfigKeys : \E value \in ConfigValues(key) :
           SetConfigValue(key, value)
    \/ \E config_file \in DOMAIN ConfigFiles : LoadCustomConfig(config_file)
    \/ \E word \in LeetWords : LeetSpeakPatterns(word)

\* the settings changed by the two functions of config.py, and
\* generate_leet_speak_patterns called under the settings of the moment
ConfigSpec == Init /\ [][ConfigNext]_vars

\* ---------------------------------------------------------------------
\* main.py: the application around the generator
\* ---------------------------------------------------------------------

I_AGREE == <<73,32,65,71,82,69,69>>

\* 'NO', 'N', 'EXIT', 'QUIT'
REFUSALS == {<<78,79>>, <<78>>, <<69,88,73,84>>, <<81,85,73,84>>}

\* what the user types at the disclaimer: "I AGREE", " i agree ", "no",
\* "N", "quit", "yes" and nothing
Responses ==
    {I_AGREE, <<32,105,32,97,103,114,101,101,32>>, <<110,111>>, <<78>>,
     <<113,117,105,116>>, <<121,101,115>>, <<>>}

\* default_cfg of quick_generate: admin, password, user, test, 2024
QuickConfig ==
    [base_words |-> <<W_admin, W_password, <<117,115,101,114>>,
                      <<116,101,115,116>>, <<50,48,50,52>> >>,
     username_file |-> "",
     use_dates |-> TRUE, start_year |-> 2020, end_year |-> 2024,
     use_common |-> TRUE, use_keyboard |-> TRUE,
     mutations |-> [leetspeak |-> TRUE, uppercase |-> TRUE,
                    numbers |-> TRUE, special |-> TRUE],
     output_file |-> "quick_wordlist.txt",
     max_words |-> 5000]

\* configurations get_dictionary_config builds from the answers: every
\* key set; one seed and the keyboard patterns cut to two words, and the
\* seeds of the answer "," with every phase off
InteractiveConfigs ==
    {[base_words |-> <<W_ab>>, username_file |-> "", use_dates |-> FALSE,
      use_common |-> FALSE, use_keyboard |-> TRUE, mutations |-> AllOff,
      output_file |-> "out.txt", max_words |-> 2],
     [base_words |-> << <<>>, <<>> >>, username_file |-> "", use_dates |-> FALSE,
      use_common |-> FALSE, use_keyboard |-> FALSE, mutations |-> AllOff,
      output_file |-> "nodir/out.txt", max_words |-> 10000]}

\* the application has a generator at work or one whose result it has not
\* yet reported
Generating == pc # "idle" \/ ret # <<>>

\* main(): with --demo the banner and quick_generate; else run(), which
\* prints the banner and shows the disclaimer, show_disclaimer returning
\* True at once when the setting is off
Main(demo) ==
    /\ app.pc = "start"
    /\ app' = [app EXCEPT !.pc =
                  IF demo THEN "demo"
                  ELSE IF ~config.REQUIRE_DISCLAIMER_ACCEPTANCE THEN "menu"
                  ELSE "disclaimer"]
    /\ UNCHANGED <<wordlist, stats, pc, cfg, ret, fs, out, passed, log, hist, config>>

\* one answer in the loop of show_disclaimer: strip().upper() of the line
Respond(response) ==
    /\ app.pc = "disclaimer"
    /\ LET r == Upper(Strip(response))
       IN  app' = IF r = I_AGREE
                  THEN [app EXCEPT !.pc = "menu", !.accepted = TRUE]
                  ELSE IF r \in REFUSALS
                  THEN [app EXCEPT !.pc = "exited"]
                  ELSE app
    /\ UNCHANGED <<wordlist, stats, pc, cfg, ret, fs, out, passed, log, hist, config>>

\* choice '1' of the menu: run_dictionary_generation() up to the call of
\* generate_dictionary on a new DictionaryGenerator
RunDictionaryGeneration(user_config) ==
    /\ app.pc = "menu"
    /\ ~Generating
    /\ GenerateDictionary(user_config)

\* quick_generate, from choice '2' of the menu and from main() with --demo
QuickGenerate ==
    /\ app.pc \in {"menu", "demo"}
    /\ ~Generating
    /\ GenerateDictionary(QuickConfig)

\* the rest of run_dictionary_generation once generate_dictionary has
\* returned: with words, the statistics and the sample are printed, the
\* file is saved and its path kept; the generator, a local, is dropped.
\* The file written is recorded by the set saved and by max_words, which
\* determine its lines (WordsToSave of any listing of the set)
Report ==
    /\ pc = "idle"
    /\ ret # <<>>
    /\ app.pc \in {"menu", "demo"}
    /\ LET user_config == hist[Len(hist)].arg
           saved == ret[1] > 0 /\ Writable(user_config.output_file)
       IN  /\ fs' = IF saved
                    THEN [fs EXCEPT ![user_config.output_file] =
                             [kind |-> "wordlist", words |-> wordlist,
                              max_words |-> user_config.max_words]]
                    ELSE fs
           /\ app' = [app EXCEPT
                         !.pc = IF app.pc = "demo" THEN "exited" ELSE "menu",
                         !.current_wordlist =
                             IF ret[1] > 0 THEN user_config.output_file ELSE @]
           /\ out' = [op |-> "run_dictionary_generation",
                      word_count |-> ret[1]]
    /\ wordlist' = {}
    /\ passed' = {}
    /\ stats' = [k \in DOMAIN stats |-> 0]
    /\ cfg' = <<>>
    /\ ret' = <<>>
    /\ log' = <<>>
    /\ UNCHANGED <<pc, hist, config>>

\* choice '0' of the menu
Quit ==
    /\ app.pc = "menu"
    /\ ~Generating
    /\ app' = [app EXCEPT !.pc = "exited"]
    /\ UNCHANGED <<wordlist, stats, pc, cfg, ret, fs, out, passed, log, hist, config>>

AppNext ==
    \/ \E value \in BOOLEAN :
           SetConfigValue("REQUIRE_DISCLAIMER_ACCEPTANCE", value)
    \/ \E demo \in BOOLEAN : Main(demo)
    \/ \E response \in Responses : Respond(response)
    \/ \E user_config \in InteractiveConfigs : RunDictionaryGeneration(user_config)
    \/ QuickGenerate
    \/ Phase
    \/ Report
    \/ Quit

\* the application from its entry point: the setting of the disclaimer put
\* in place before main(), then main() with or without --demo
AppSpec == Init /\ [][AppNext]_vars

\* generate_dictionary as the first call on a fresh instance, with any of
\* the configurations
FreshRun ==
    /\ hist = <<>>
    /\ \E user_config \in AllConfigs : GenerateDictionary(user_config)

RunNext ==
    \/ FreshRun
    \/ Phase

\* one run of generate_dictionary on a fresh instance
RunSpec == Init /\ [][RunNext]_vars

\* ---------------------------------------------------------------------
\* The claims
\* ---------------------------------------------------------------------

LastCall == hist[Len(hist)]

\* a generate_dictionary call has just returned
Returned ==
    /\ pc = "idle"
    /\ hist # <<>>
    /\ LastCall.op = "generate_dictionary"

NonEmpty(S) == {w \in S : w # <<>>}

\* C1: after any sequence of add_word / add_words calls and generation
\* phases, the candidate set is exactly the set of distinct non-empty
\* strings ever passed to add_word, and so has as many elements.
C1_Uniqueness ==
    /\ wordlist = NonEmpty(passed)
    /\ Cardinality(wordlist) = Cardinality(NonEmpty(passed))

\* add_word, add_words and a generation run have all passed strings, an
\* empty one among them
C1_Witness ==
    /\ Returned
    /\ \E i \in DOMAIN hist : hist[i].op = "add_word"
    /\ \E i \in DOMAIN hist : hist[i].op = "add_words"
    /\ "dates" \in Range(log)
    /\ <<>> \in passed
    /\ wordlist # {}

\* C2: add_word(w) called a second time immediately after add_word(w)
\* leaves the candidate set unchanged.
C2_Idempotent ==
    [][\A w \in Words :
          (/\ hist # <<>>
           /\ LastCall.op = "add_word"
           /\ LastCall.arg = w
           /\ hist' = Append(hist, [op |-> "add_word", arg |-> w]))
          => wordlist' = wordlist]_vars

\* add_word was called twice in a row with one non-empty string
C2_Witness ==
    \E i \in DOMAIN hist :
        /\ i + 1 \in DOMAIN hist
        /\ hist[i].op = "add_word"
        /\ hist[i + 1].op = "add_word"
        /\ hist[i].arg = hist[i + 1].arg
        /\ hist[i].arg \in wordlist

\* C3: in every reachable state the candidate set holds no empty string.
C3_NoEmptyString == <<>> \notin wordlist

\* an empty string was passed to add_word after the username file and the
\* date phase ran
C3_Witness ==
    /\ <<>> \in passed
    /\ "username_file" \in Range(log)
    /\ "dates" \in Range(log)
    /\ \E i \in DOMAIN hist : hist[i].op = "add_word" /\ hist[i].arg = <<>>

\* C4: generate_dictionary called with an empty or missing seed-word list
\* returns 0 and runs no phase: the candidate set and the statistics
\* counters are after the call what they were before it.
C4_EmptySeedsAbort ==
    [][(/\ pc = "idle"
        /\ Len(hist') = Len(hist) + 1
        /\ hist'[Len(hist')].op = "generate_dictionary"
        /\ Get(hist'[Len(hist')].arg, "base_words", <<>>) = <<>>)
       => (/\ ret' = <<0>>
           /\ pc' = "idle"
           /\ log' = <<>>
           /\ wordlist' = wordlist
           /\ passed' = passed
           /\ stats' = stats)]_vars

\* a call with enabled toggles and no seed word has returned 0 on an
\* instance that holds words
C4_Witness ==
    /\ Returned
    /\ Get(LastCall.arg, "base_words", <<>>) = <<>>
    /\ Flag(LastCall.arg, "use_common")
    /\ ret = <<0>>
    /\ wordlist # {}
    /\ log = <<>>

\* C5 as stated: for every configuration and after any earlier calls, the
\* value generate_dictionary returns is the number of elements of the
\* candidate set when it returns.
C5_ReturnsSetSize ==
    Returned => ret = <<Cardinality(wordlist)>>

\* C5 amended: with a non-empty seed-word list the value returned is the
\* number of elements of the candidate set when the call returns; with an
\* empty or missing list it is 0, whatever the set holds.
C5_ReturnsSetSizeOrZero ==
    Returned =>
        IF Get(LastCall.arg, "base_words", <<>>) = <<>>
        THEN ret = <<0>>
        ELSE ret = <<Cardinality(wordlist)>>

\* a run with seed words has returned after earlier calls on the instance
C5_Witness ==
    /\ Returned
    /\ Len(hist) >= 2
    /\ Get(LastCall.arg, "base_words", <<>>) # <<>>
    /\ ret = <<Cardinality(wordlist)>>
    /\ ret[1] > Len(LastCall.arg.base_words)

\* the order of the phases as the claim states it
ClaimedOrder ==
    << "base_words", "username_file", "dates", "common", "keyboard",
       "numbers", "leetspeak", "uppercase", "special" >>

Position(p) == CHOOSE i \in DOMAIN ClaimedOrder : ClaimedOrder[i] = p

\* C6: within one generate_dictionary run the phases that execute do so
\* in the fixed order seed ingestion, username file, dates, common
\* passwords, keyboard patterns, numbers, leet-speak, uppercase, special
\* characters: none runs twice, none runs after a later one.
C6_PhaseOrder ==
    /\ Range(log) \subseteq Range(ClaimedOrder)
    /\ \A i, j \in DOMAIN log : i < j => Position(log[i]) < Position(log[j])

\* a run in which all nine phases ran has reached its closing statements
C6_Witness ==
    /\ pc = "finish"
    /\ log = ClaimedOrder

\* the strings in the variant lists PatternGenerator returns for a word list
VariantsOf(lists) == UNION {Range(lists[k]) : k \in DOMAIN lists}

Saved ==
    /\ hist # <<>>
    /\ LastCall.op = "save_to_file"
    /\ out.op = "save_to_file"
    /\ out.saved

SavedLines == fs[LastCall.arg.filepath].lines

\* the order of the written file, stated on the strings themselves:
\* shorter first, and of two strings of one length the one with the
\* smaller code point at the first place where they differ
ClaimedBefore(a, b) ==
    \/ Len(a) < Len(b)
    \/ /\ Len(a) = Len(b)
       /\ \E k \in 1..Len(a) :
             /\ \A i \in 1..(k - 1) : a[i] = b[i]
             /\ a[k] < b[k]

\* C8: the sequence save_to_file writes is a function of the candidate
\* set only: it is strictly ascending in the order (length, then
\* lexicographic), no line occurs twice, and every insertion order of the
\* same set gives the same sequence for the same max_words.
C8_SavedOrder ==
    Saved =>
        /\ \A i, j \in 1..Len(SavedLines) :
              i < j => ClaimedBefore(SavedLines[i], SavedLines[j])
        /\ Cardinality(Range(SavedLines)) = Len(SavedLines)
        /\ \A listing \in Listings(wordlist) :
              WordsToSave(listing, LastCall.arg.max_words) = SavedLines

\* a file written from a set that has several listings and two words of
\* one length, which only the lexicographic part of the key orders
C8_Witness ==
    /\ Saved
    /\ Cardinality(Listings(wordlist)) > 1
    /\ \E i \in 1..(Len(SavedLines) - 1) :
          Len(SavedLines[i]) = Len(SavedLines[i + 1])

\* C9: save_to_file writes min(|set|, max_words) lines when max_words > 0
\* and |set| lines when max_words = 0; the lines written are words of the
\* set and each of them precedes, in the order (length, then
\* lexicographic), every word of the set that was left out.
C9_Truncation ==
    Saved =>
        LET max_words == LastCall.arg.max_words
            size == Cardinality(wordlist)
        IN  /\ max_words > 0 =>
                  Len(SavedLines) = IF size < max_words THEN size ELSE max_words
            /\ max_words = 0 => Len(SavedLines) = size
            /\ Range(SavedLines) \subseteq wordlist
            /\ \A w \in Range(SavedLines), o \in wordlist \ Range(SavedLines) :
                  ClaimedBefore(w, o)

\* a file cut to max_words lines, with words of the set left out
C9_Witness ==
    /\ Saved
    /\ LastCall.arg.max_words > 0
    /\ Len(SavedLines) = LastCall.arg.max_words
    /\ Cardinality(wordlist) > LastCall.arg.max_words

ReadingOps == {"save_to_file", "get_statistics", "print_statistics", "print_sample"}

\* C10: save_to_file, whether it writes its file or fails, get_statistics,
\* print_statistics and print_sample leave the candidate set and the
\* statistics counters as they were, and a save_to_file that follows a
\* failed one with the same max_words writes the lines the failed one
\* was to write.
C10_ReadOnly ==
    [][(Len(hist') = Len(hist) + 1 /\ hist'[Len(hist')].op \in ReadingOps) =>
          /\ wordlist' = wordlist
          /\ stats' = stats
          /\ passed' = passed
          /\ ( /\ hist # <<>>
               /\ LastCall.op = "save_to_file"
               /\ out.op = "save_to_file"
               /\ ~out.saved
               /\ hist'[Len(hist')].op = "save_to_file"
               /\ hist'[Len(hist')].arg.max_words = LastCall.arg.max_words
               /\ out'.saved )
             => fs'[hist'[Len(hist')].arg.filepath].lines = out.lines]_vars

\* a save to a path that cannot be opened, then the same save to another
\* path, which wrote the words of a set with counted seed words
C10_Witness ==
    /\ Len(hist) >= 2
    /\ Saved
    /\ hist[Len(hist) - 1].op = "save_to_file"
    /\ hist[Len(hist) - 1].arg.filepath = "nodir/out.txt"
    /\ hist[Len(hist) - 1].arg.max_words = LastCall.arg.max_words
    /\ LastCall.arg.filepath = "out.txt"
    /\ Len(SavedLines) >= 2
    /\ stats.base_words > 0

\* s is the decimal form of year in exactly four digits
IsFourDigitsOf(s, year) ==
    /\ Len(s) = 4
    /\ \A i \in 1..4 : s[i] \in 48..57
    /\ (s[1] - 48) * 1000 + (s[2] - 48) * 100 + (s[3] - 48) * 10 + (s[4] - 48) = year

\* C11: for every start_year <= end_year, generate_year_patterns returns
\* 2 * (end_year - start_year + 1) strings, years ascending; for each year
\* the four-digit decimal form comes first and its last two digits, a
\* string of exactly two characters, second.
C11_YearPatterns ==
    (out.op = "generate_year_patterns" /\ out.start_year <= out.end_year) =>
        /\ Len(out.result) = 2 * (out.end_year - out.start_year + 1)
        /\ \A k \in 0..(out.end_year - out.start_year) :
              /\ IsFourDigitsOf(out.result[2 * k + 1], out.start_year + k)
              /\ Len(out.result[2 * k + 2]) = 2
              /\ out.result[2 * k + 2] = SubSeq(out.result[2 * k + 1], 3, 4)

\* C12: generate_year_patterns with end_year < start_year fails with an
\* InvalidRangeError that the caller sees; it does not return a result.
C12_InvertedRangeFails ==
    (out.op = "generate_year_patterns" /\ out.end_year < out.start_year) =>
        out.outcome = "InvalidRangeError"

\* the dates phase of the run is about to be decided, with dates enabled
DatesEnabled == pc = "dates" /\ Flag(cfg, "use_dates")

StartYear == Get(cfg, "start_year", DEFAULT_START_YEAR)

EndYear == Get(cfg, "end_year", DEFAULT_END_YEAR)

\* C13: when generate_dictionary runs with dates enabled and
\* end_year < start_year, the date-pattern phase is aborted: it passes
\* nothing to add_word and the candidate set gains no seed+year,
\* seed+month or seed+day string.
C13_InvertedRangeAddsNothing ==
    [][(DatesEnabled /\ EndYear < StartYear) =>
          (wordlist' = wordlist /\ passed' = passed)]_vars

\* n in two decimal digits, for 0 <= n <= 99
TwoDigits(n) == <<48 + (n \div 10), 48 + (n % 10)>>

\* "admin2023", "admin23", "admin2024", "admin24", "admin01" .. "admin31"
AdminDateFamilies ==
    {W_admin \o y : y \in {<<50,48,50,51>>, <<50,51>>, <<50,48,50,52>>, <<50,52>>}}
        \cup {W_admin \o TwoDigits(n) : n \in 1..31}

\* generate_dictionary has returned from a run with seed words ["admin"],
\* dates enabled for 2023-2024, and common passwords, keyboard patterns,
\* numbers, every mutation and the username file off
AdminScenario ==
    /\ Returned
    /\ Get(cfg, "base_words", <<>>) = <<W_admin>>
    /\ Flag(cfg, "use_dates")
    /\ StartYear = 2023
    /\ EndYear = 2024
    /\ ~Flag(cfg, "use_common")
    /\ ~Flag(cfg, "use_keyboard")
    /\ Get(cfg, "mutations", <<>>) = AllOff
    /\ "username_file" \notin DOMAIN cfg

\* C17 as stated: the set of that run contains "admin2023", "admin23",
\* "admin2024", "admin24" and "admin01" through "admin31", and no entry
\* outside the families seed + year pattern, seed + zero-padded month,
\* seed + zero-padded day.
C17_AdminFamiliesOnly ==
    AdminScenario =>
        /\ AdminDateFamilies \subseteq wordlist
        /\ wordlist \subseteq AdminDateFamilies

\* C17 amended: the set of that run is exactly the seed "admin" together
\* with "admin2023", "admin23", "admin2024", "admin24" and "admin01"
\* through "admin31".
C17_AdminSeedAndFamilies ==
    AdminScenario => wordlist = {W_admin} \cup AdminDateFamilies

\* the run of the scenario has returned the size of its set
C17_Witness ==
    /\ AdminScenario
    /\ log = <<"base_words", "dates">>
    /\ ret = <<Cardinality(wordlist)>>
    /\ Cardinality(wordlist) > 30

Calls(op) ==
    /\ Len(hist') = Len(hist) + 1
    /\ hist'[Len(hist')].op = op

\* the decimal form of i, for 0 <= i <= 999
DecimalOf(i) ==
    IF i < 10 THEN <<48 + i>>
    ELSE IF i < 100 THEN <<48 + (i \div 10), 48 + (i % 10)>>
    ELSE <<48 + (i \div 100), 48 + ((i \div 10) % 10), 48 + (i % 10)>>

\* the strings the claim has generate_with_numbers pass to add_word: for
\* each seed word the fixed common suffixes and the numbers 0..bound
NumberSuffixed(base_words, bound) ==
    {w \o s : w \in Range(base_words), s \in Range(common_numbers)}
        \cup {w \o DecimalOf(i) : w \in Range(base_words), i \in 0..bound}

\* C18: generate_with_numbers(seed_words, max_number) inserts, for each
\* seed word w, w+i for every i in 0..min(100, max_number) inclusive, in
\* addition to the fixed common suffixes, and no sequential suffix above
\* that bound however large max_number is.
C18_SequentialUpTo100 ==
    [][Calls("generate_with_numbers") =>
          LET arg == hist'[Len(hist')].arg
              bound == IF arg.max_number < 100 THEN arg.max_number ELSE 100
              expected == NumberSuffixed(arg.base_words, bound)
          IN  /\ passed' = passed \cup expected
              /\ wordlist' = wordlist \cup expected]_vars

\* the characters that count as blank at the ends of a line
Blank == {9, 10, 11, 12, 13, 32}

\* the line without the blanks at its ends, when anything is left
TrimmedOf(line) ==
    {SubSeq(line, i, j) : <<i, j>> \in
        {q \in (DOMAIN line) \X (DOMAIN line) :
            /\ q[1] <= q[2]
            /\ line[q[1]] \notin Blank
            /\ line[q[2]] \notin Blank
            /\ \A k \in DOMAIN line : (k < q[1] \/ k > q[2]) => line[k] \in Blank}}

\* u with every '.' and '_' taken out
WithoutDots(u) == SelectSeq(u, LAMBDA c : c \notin {46, 95})

\* what the claim has generate_from_username_file insert for a username:
\* the username, its four decorations and, when taking out '.' and '_'
\* changes it, the cleaned form and the cleaned form + "123"
EntriesOf(u) ==
    {u, u \o <<49,50,51>>, u \o <<64,49,50,51>>, u \o <<33>>, u \o <<50,48,50,52>>}
        \cup (IF WithoutDots(u) # u
              THEN {WithoutDots(u), WithoutDots(u) \o <<49,50,51>>}
              ELSE {})

\* the number of add_word calls the claim allows for the usernames of the
\* lines from the n-th on: five for a username, two more when cleaning
\* changes it, none for a blank line
RECURSIVE AttemptsFrom(_, _)
AttemptsFrom(lines, n) ==
    IF n > Len(lines) THEN 0
    ELSE (IF TrimmedOf(lines[n]) = {} THEN 0
          ELSE IF \E u \in TrimmedOf(lines[n]) : WithoutDots(u) # u THEN 7
          ELSE 5) + AttemptsFrom(lines, n + 1)

FullProduct(words, numbers) ==
    [i \in 1..(Len(words) * Len(numbers)) |->
        words[((i - 1) \div Len(numbers)) + 1] \o numbers[((i - 1) % Len(numbers)) + 1]]

\* C14: for max_combinations >= 0, generate_word_number_combinations
\* returns min(max_combinations, |words| * |numbers|) strings, the prefix
\* of that length of the full word-outer, number-inner sequence, so the
\* cut can fall inside one word's pass.
C14_CombinationPrefix ==
    (out.op = "generate_word_number_combinations" /\ out.max_combinations >= 0) =>
        LET full == FullProduct(out.words, out.numbers)
            n == IF out.max_combinations < Len(full)
                 THEN out.max_combinations ELSE Len(full)
        IN  /\ Len(out.result) = n
            /\ out.result = SubSeq(full, 1, n)

\* (["a","b"], ["1","2","3"], 2) gave ["a1","a2"]
C14_Witness ==
    /\ out.op = "generate_word_number_combinations"
    /\ out.words = <<<<97>>, <<98>>>>
    /\ out.numbers = <<<<49>>, <<50>>, <<51>>>>
    /\ out.max_combinations = 2
    /\ out.result = <<<<97,49>>, <<97,50>>>>

\* the word with its letters A-Z turned into a-z
LowercaseOf(word) ==
    [i \in DOMAIN word |-> IF word[i] \in 65..90 THEN word[i] + 32 ELSE word[i]]

\* s with every occurrence of the letter turned into the character r
Substituted(s, letter, r) ==
    [i \in DOMAIN s |-> IF s[i] = letter THEN r ELSE s[i]]

\* v is the lowercase word with one mapped letter, which occurs in it,
\* replaced everywhere by one of the substitutes of that letter
SingleClassVariant(v, word) ==
    \E k \in DOMAIN LEET_SPEAK_MAP :
        LET letter == LEET_SPEAK_MAP[k][1]
            substitutes == LEET_SPEAK_MAP[k][2]
        IN  /\ \E i \in DOMAIN word : LowercaseOf(word)[i] = letter
            /\ \E j \in 2..Len(substitutes) :
                  /\ Len(substitutes[j]) = 1
                  /\ v = Substituted(LowercaseOf(word), letter, substitutes[j][1])

ToggledOn(c, p) ==
    IF p = "dates" THEN Flag(c, "use_dates")
    ELSE IF p = "common" THEN Flag(c, "use_common")
    ELSE IF p = "keyboard" THEN Flag(c, "use_keyboard")
    ELSE IF p = "numbers" THEN Get(Get(c, "mutations", <<>>), "numbers", TRUE) = TRUE
    ELSE Flag(Get(c, "mutations", <<>>), p)

\* the configuration names a username file that is missing or unreadable
BadUsernameFile(c) ==
    /\ "username_file" \in DOMAIN c
    /\ fs[c.username_file].kind \in {"missing", "unreadable"}

\* C21: a missing or unreadable username file never aborts a run: the
\* username-file phase goes on to the next phase without raising, a
\* missing path leaves the candidate set unchanged, and the run executes
\* every later enabled phase and returns the set size.
C21_BadFileNeverAborts ==
    /\ [][pc = "username_file" /\ BadUsernameFile(cfg) =>
             /\ pc' = "dates"
             /\ fs[cfg.username_file].kind = "missing" => wordlist' = wordlist]_vars
    /\ [](Returned /\ ret # <<0>> /\ BadUsernameFile(LastCall.arg) =>
             /\ ret = <<Cardinality(wordlist)>>
             /\ \A p \in {"dates", "common", "keyboard", "numbers",
                           "leetspeak", "uppercase", "special"} :
                    ToggledOn(LastCall.arg, p) => p \in Range(log))

\* a run with the unreadable file has gone through the later phases and
\* returned the size of a set with more than the seed in it
C21_Witness ==
    /\ Returned
    /\ Get(LastCall.arg, "username_file", "") = "locked.txt"
    /\ "username_file" \in Range(log)
    /\ "special" \in Range(log)
    /\ ret = <<Cardinality(wordlist)>>
    /\ Cardinality(wordlist) > 10

\* the last call was get_statistics, and out holds what it returned
GotStatistics ==
    /\ hist # <<>>
    /\ LastCall.op = "get_statistics"

\* C22: get_statistics returns an empty result exactly when the candidate
\* set is empty; otherwise total_words is the size of the set,
\* unique_words equals total_words, min_length and max_length are the
\* least and greatest lengths of members, min_length >= 1, and the sum of
\* the lengths lies between min_length * total_words and
\* max_length * total_words.
C22_Statistics ==
    GotStatistics =>
        LET r == out.result
        IN  /\ r = <<>> <=> wordlist = {}
            /\ wordlist # {} =>
                  /\ r.total_words = Cardinality(wordlist)
                  /\ r.unique_words = r.total_words
                  /\ \E w \in wordlist : Len(w) = r.min_length
                  /\ \E w \in wordlist : Len(w) = r.max_length
                  /\ \A w \in wordlist : r.min_length <= Len(w) /\ Len(w) <= r.max_length
                  /\ r.min_length >= 1
                  /\ r.avg_length[2] = r.total_words
                  /\ r.min_length * r.total_words <= r.avg_length[1]
                  /\ r.avg_length[1] <= r.max_length * r.total_words

\* statistics were taken of a set with words of different lengths
C22_Witness ==
    /\ GotStatistics
    /\ Cardinality(wordlist) >= 3
    /\ out.result.min_length < out.result.max_length
    /\ out.result.min_length * out.result.total_words < out.result.avg_length[1]

\* the word with its letters a-z turned into A-Z
UppercaseOf(word) ==
    [i \in DOMAIN word |-> IF word[i] \in 97..122 THEN word[i] - 32 ELSE word[i]]

\* first letter capitalized, the rest lowercase
TitleCaseOf(word) ==
    IF word = <<>> THEN <<>>
    ELSE UppercaseOf(<<Head(word)>>) \o LowercaseOf(Tail(word))

\* the characters at even indexes (counted from 0) uppercase, the others
\* lowercase
AlternatingOf(word) ==
    [i \in DOMAIN word |->
        IF i % 2 = 1 THEN UppercaseOf(<<word[i]>>)[1] ELSE LowercaseOf(<<word[i]>>)[1]]

\* C23: generate_case_variations(word) returns, in this order, the
\* lowercase, uppercase and title-case forms, followed by the
\* alternating-case form if and only if len(word) <= 10: 4 elements for
\* length <= 10 and 3 for length >= 11.
C23_CaseVariations ==
    out.op = "generate_case_variations" =>
        LET word == out.word
            three == <<LowercaseOf(word), UppercaseOf(word), TitleCaseOf(word)>>
        IN  /\ Len(word) <= 10 =>
                  /\ out.result = three \o <<AlternatingOf(word)>>
                  /\ Len(out.result) = 4
            /\ Len(word) >= 11 =>
                  /\ out.result = three
                  /\ Len(out.result) = 3

\* a word of exactly ten characters got its alternating form, different
\* from the three others
C23_Witness ==
    /\ out.op = "generate_case_variations"
    /\ Len(out.word) = 10
    /\ Len(out.result) = 4
    /\ out.result[4] \notin {out.result[1], out.result[2], out.result[3]}

\* what phase p adds for configuration c, taken alone: a function of the
\* seed words, the year range and the username file, and of no toggle
Contribution(c, p) ==
    IF p = "username_file"
    THEN IF Get(c, "username_file", "") # "" /\ fs[c.username_file].kind = "file"
         THEN Range(UsernameWords(fs[c.username_file].lines))
         ELSE {}
    ELSE IF p = "dates"
    THEN Range(DateWords(c.base_words, Get(c, "start_year", DEFAULT_START_YEAR),
                         Get(c, "end_year", DEFAULT_END_YEAR)))
    ELSE IF p = "common" THEN Range(COMMON_PASSWORDS)
    ELSE IF p = "keyboard" THEN Range(KEYBOARD_PATTERNS)
    ELSE IF p = "numbers" THEN Range(NumberWords(c.base_words, DEFAULT_MAX_NUMBER))
    ELSE IF p = "leetspeak" THEN VariantsOf(LeetVariantLists(c.base_words))
    ELSE IF p = "uppercase" THEN VariantsOf(CaseVariantLists(c.base_words))
    ELSE VariantsOf(SpecialVariantLists(c.base_words))

\* the phases of configuration c that are switched on
PhasesOn(c) ==
    {"username_file"} \cup
    {p \in {"dates", "common", "keyboard", "numbers", "leetspeak",
            "uppercase", "special"} : ToggledOn(c, p)}

\* a run on a fresh generator with seed words has returned
RunReturned ==
    /\ Returned
    /\ Len(hist) = 1
    /\ ~NoBaseWords(LastCall.arg)

\* C24: a phase whose toggle is false adds nothing: with seed words, no
\* username file and every toggle false the run ends with the set of
\* non-empty seed words; and what a phase contributes does not depend on
\* which other phases are enabled: the set is the non-empty seeds with the
\* contributions of the enabled phases, each taken alone.
C24_TogglesIndependent ==
    RunReturned =>
        LET c == LastCall.arg
            all == Range(c.base_words) \cup
                   UNION {Contribution(c, p) : p \in PhasesOn(c)}
        IN  /\ passed = all
            /\ wordlist = NonEmpty(all)
            /\ (/\ "username_file" \notin DOMAIN c
                /\ \A p \in PhasesOn(c) : p = "username_file")
               => wordlist = NonEmpty(Range(c.base_words))

\* a run with every toggle false has returned with the seed word alone,
\* the keys of three of the toggles being present and false
C24_Witness ==
    /\ RunReturned
    /\ "username_file" \notin DOMAIN LastCall.arg
    /\ \A k \in {"use_dates", "use_common", "use_keyboard"} :
           k \in DOMAIN LastCall.arg /\ LastCall.arg[k] = FALSE
    /\ "mutations" \in DOMAIN LastCall.arg /\ LastCall.arg.mutations = AllOff
    /\ log = <<"base_words">>
    /\ wordlist = {W_admin}

\* a run with only the keyboard phase and one mutation enabled has
\* returned with more than the seed
C24_WitnessMixed ==
    /\ RunReturned
    /\ log = <<"base_words", "keyboard", "uppercase">>
    /\ Cardinality(wordlist) > 5

\* C25: the candidate set grows monotonically: across every step of every
\* phase of generate_dictionary and across any sequence of public
\* operations on one instance, the set after a step holds every element
\* of the set before it.
C25_Monotonic == [][wordlist \subseteq wordlist']_vars

\* a word added by add_word is still in the set after a later run of
\* generate_dictionary, which added others, has returned
C25_Witness ==
    /\ Returned
    /\ ret # <<0>>
    /\ Len(hist) >= 2
    /\ hist[1].op = "add_word"
    /\ hist[1].arg \in wordlist
    /\ Cardinality(wordlist) > 10

\* the notable numbers, as listed
NotableList ==
    << <<48,48,55>>, <<54,57>>, <<52,50,48>>, <<54,54,54>>, <<55,55,55>>,
       <<56,56,56>>, <<57,57,57>>, <<48,48,48>>, <<49,48,49>>, <<49,52,51>>,
       <<49,51,51,55>> >>

\* C26: for every max_length >= 1, generate_number_sequences(max_length)
\* returns first the max_length ascending-digit runs, the run for each L
\* in 1..max_length having exactly L characters, then for each digit 0..9
\* (digit-major) the repeated-digit runs of lengths 2..max_length
\* (length-minor), then the fixed notable list: max_length +
\* 10 * (max_length - 1) + 11 strings in all.
C26_NumberSequences ==
    (out.op = "generate_number_sequences" /\ out.max_length >= 1) =>
        LET n == out.max_length
            r == out.result
        IN  /\ Len(r) = n + 10 * (n - 1) + 11
            /\ \A L \in 1..n : Len(r[L]) = L
            /\ \A d \in 0..9 : \A k \in 2..n :
                   r[n + d * (n - 1) + (k - 1)] = [j \in 1..k |-> 48 + d]
            /\ SubSeq(r, Len(r) - 10, Len(r)) = NotableList

\* C27: as the docstring example of generate_leet_speak_patterns states,
\* the result for the word "password" contains the string "p@ssw0rd".
C27_DocstringExample ==
    (out.op = "generate_leet_speak_patterns" /\ out.word = W_password) =>
        <<112,64,115,115,119,48,114,100>> \in Range(out.result)

\* the configuration key that switches each optional phase
ToggleKey(p) ==
    IF p = "username_file" THEN "username_file"
    ELSE IF p = "dates" THEN "use_dates"
    ELSE IF p = "common" THEN "use_common"
    ELSE IF p = "keyboard" THEN "use_keyboard"
    ELSE p

\* the toggle of phase p is missing from configuration c
ToggleMissing(c, p) ==
    IF p \in {"numbers", "leetspeak", "uppercase", "special"}
    THEN "mutations" \notin DOMAIN c \/ ToggleKey(p) \notin DOMAIN c.mutations
    ELSE ToggleKey(p) \notin DOMAIN c

\* C30: the number-suffix phase is the only phase enabled by default: a
\* run whose configuration has no 'mutations' entry, or whose mutations
\* have no 'numbers' key, still runs generate_with_numbers on the seed
\* words, and every other optional phase with a missing toggle is
\* skipped.
C30_NumbersDefaultOn ==
    RunReturned =>
        LET c == LastCall.arg
        IN  /\ ToggleMissing(c, "numbers") =>
                  /\ "numbers" \in Range(log)
                  /\ Range(NumberWords(c.base_words, DEFAULT_MAX_NUMBER))
                         \subseteq passed
            /\ \A p \in {"username_file", "dates", "common", "keyboard",
                          "leetspeak", "uppercase", "special"} :
                   ToggleMissing(c, p) => p \notin Range(log)

\* a run whose configuration has the seed words and nothing else has
\* returned, the number phase being the only optional one that ran
C30_Witness ==
    /\ RunReturned
    /\ DOMAIN LastCall.arg = {"base_words"}
    /\ log = <<"base_words", "numbers">>
    /\ Cardinality(wordlist) > 100

\* a run with a 'mutations' entry without the 'numbers' key has returned
C30_WitnessNoKey ==
    /\ RunReturned
    /\ "mutations" \in DOMAIN LastCall.arg
    /\ "numbers" \notin DOMAIN LastCall.arg.mutations
    /\ "numbers" \in Range(log)

\* C28: in every reachable state, including after set_config_value or
\* load_custom_config has run, every entry of the leet map has the key
\* letter itself as its first substitute, so that the substitute
\* generate_leet_speak_patterns skips is the identity and every
\* substitution variant it returns differs from the lowercased word.
C28_IdentityFirst ==
    /\ \A k \in DOMAIN config.LEET_SPEAK_MAP :
           LET entry == config.LEET_SPEAK_MAP[k]
           IN  entry[2] # <<>> /\ entry[2][1] = <<entry[1]>>
    /\ out.op = "generate_leet_speak_patterns" =>
           \A i \in 2..Len(out.result) : out.result[i] # LowercaseOf(out.word)

\* generate_leet_speak_patterns under a changed map has returned the
\* lowercase word as a substitution variant
C28_IdentityVariantReturned ==
    /\ out.op = "generate_leet_speak_patterns"
    /\ \E i \in 2..Len(out.result) : out.result[i] = LowercaseOf(out.word)

\* generation has been started: generate_dictionary has been called
GenerationStarted ==
    \E i \in DOMAIN hist : hist[i].op = "generate_dictionary"

\* C29: while REQUIRE_DISCLAIMER_ACCEPTANCE is true, on every execution
\* path of the entry point, interactive and --demo alike, dictionary
\* generation is never started before the user has accepted the
\* disclaimer.
C29_AcceptedBeforeGeneration ==
    (config.REQUIRE_DISCLAIMER_ACCEPTANCE /\ GenerationStarted) => app.accepted

\* the --demo run has saved the wordlist of quick_generate, and the user
\* was never shown the disclaimer
C29_DemoSavedUnasked ==
    /\ app.pc = "exited"
    /\ ~app.accepted
    /\ config.REQUIRE_DISCLAIMER_ACCEPTANCE
    /\ app.current_wordlist = "quick_wordlist.txt"
    /\ fs["quick_wordlist.txt"].kind = "wordlist"
    /\ Cardinality(fs["quick_wordlist.txt"].words) = 766

\* on the interactive path generation has run after the user typed
\* " i agree "
C29_InteractiveAccepted ==
    /\ app.pc = "menu"
    /\ app.accepted
    /\ GenerationStarted
    /\ app.current_wordlist # ""

====
